---- MODULE Spec2Model ----
(***************************************************************************)
(* Model of src/ap.py: the Streamlit dashboard that refreshes a local CSV  *)
(* snapshot (data.csv) from the table `descargas`, loads and enriches it   *)
(* through the st.cache_data-memoised load_data, and aggregates it by      *)
(* region.  One script run (render cycle) is one step: Streamlit executes  *)
(* the script top to bottom, synchronously, on every interaction.          *)
(*                                                                         *)
(* The columns fecha_hora_descarga / fecha are not carried: no property    *)
(* below reads them.  lat and lon travel together as one coordinate pair.  *)
(***************************************************************************)
EXTENDS Integers, Sequences, FiniteSets, TLC

\* Largest number of rows the table `descargas` reaches.
MaxRows == 2

\* The snapshot path and the cache key (ap.py line 189).
ARCHIVO_SALIDA == "data.csv"

\* pandas' missing value (NaN / pd.NA) in the column 'region'.
NA == "<NA>"

\* Placeholders written by load_data.
Desconocida == "Desconocida"
ErrorGeocodificacion == "Error Geocodificacion"

\* id_descargado values, and the coordinate pairs of the rows.
Items == {1, 2}
Coords == {"madrid", "monaco"}

\* The id_descargado values in use: items are numbered in the order of their
\* first download.
ItemsOf(rows) == {rows[i].id_descargado : i \in 1..Len(rows)}
NextItems(rows) == {x \in Items : x = 1 \/ (x - 1) \in ItemsOf(rows)}

\* The rows that can be inserted into `descargas` after rows: the primary key
\* is the next integer.  The coordinates of a row that already has a region
\* are never looked up, so one pair stands for them.
DbRows(rows) ==
    { r \in [id : {Len(rows) + 1}, id_descargado : NextItems(rows), lat_lon : Coords,
             region : {NA, "Madrid"}] :
        r.region # NA => r.lat_lon = "madrid" }

\* Python's None as the value of a DataFrame-or-None variable, and a DataFrame.
None == [ok |-> FALSE, rows |-> <<>>]
DataFrame(rows) == [ok |-> TRUE, rows |-> rows]

\* The snapshot file: absent, or present with or without a header line.
Absent == [exists |-> FALSE, header |-> FALSE, rows |-> <<>>]
Truncated == [exists |-> TRUE, header |-> FALSE, rows |-> <<>>]

\* st.cache_data's store for load_data: a function from the argument to the
\* cached return value (with the st.* messages it replays).
EmptyCache == [k \in {} |-> None]

VARIABLES
    db,              \* rows of the table `descargas`, in primary-key order
    rg,              \* the module-level rg: "None", "ok", or "raises" (search throws)
    file,            \* content of data.csv
    cache,           \* st.cache_data store of load_data
    ciclo,           \* last script run: "none", "stopped" (st.stop) or "shown"
    boton,           \* whether st.button returned True in the last run
    exito,           \* the last run's exito (FALSE when the button was not pressed)
    df_principal,    \* the last run's df_principal
    aviso,           \* the st.* message load_data issued (or replayed) in the last run
    last_update,     \* the last run's last_update
    df_zona,         \* the last run's df_zona: region -> [Descargas, DescargasUnicas]
    total_descargas_global,
    total_unicas_global,
    log,             \* the events of the last run, in order
    fileBefore,      \* data.csv as the last run found it
    cacheHadEntry    \* whether the cache held load_data's result when the last run began

vars == <<db, rg, file, cache, ciclo, boton, exito, df_principal, aviso, last_update,
          df_zona, total_descargas_global, total_unicas_global, log, fileBefore, cacheHadEntry>>

----
\* pandas helpers

\* DataFrame.to_csv(index=False): a header line and one line per row; a
\* missing region is written as an empty field.
CsvField(v) == IF v = NA THEN "" ELSE v
to_csv(rows) ==
    [exists |-> TRUE, header |-> TRUE,
     rows |-> [i \in 1..Len(rows) |-> [rows[i] EXCEPT !.region = CsvField(@)]]]

\* pd.read_csv on a file with a header: an empty field is read as NaN.
ReadField(v) == IF v = "" THEN NA ELSE v
read_csv(f) == [i \in 1..Len(f.rows) |-> [f.rows[i] EXCEPT !.region = ReadField(@)]]

\* df['region'].fillna(value): only missing values (NaN) are replaced.
FillnaNoop(rows, value) == rows
Fillna(rows, value) ==
    [i \in 1..Len(rows) |-> IF rows[i].region = NA THEN [rows[i] EXCEPT !.region = value]
                            ELSE rows[i]]

\* rg.search(coords)[i]['admin1']: reverse_geocoder returns the nearest
\* place's admin1, which is the empty string for places without one.
Admin1(c) == IF c = "madrid" THEN "Madrid" ELSE ""

----
\* load_data (lines 105-179)

\* Lines 137-151: look up the coordinates of the rows whose region is missing
\* and assign the admin1 values back to exactly those rows.
GeocodeFill(rows) ==
    [i \in 1..Len(rows) |->
        IF rows[i].region = NA THEN [rows[i] EXCEPT !.region = Admin1(rows[i].lat_lon)]
        ELSE rows[i]]

\* Lines 118-158 on a non-empty DataFrame: the region-fill step.
MissingRegionMask(rows) == {i \in 1..Len(rows) : rows[i].region = NA}

RegionFill(rows, rgm) ==
    LET filled ==
            IF MissingRegionMask(rows) = {} THEN rows
            ELSE IF rgm = "None" THEN Fillna(rows, Desconocida)
            ELSE IF rgm = "raises" THEN Fillna(rows, ErrorGeocodificacion)
            ELSE GeocodeFill(rows)
    IN  Fillna(filled, Desconocida)

RegionFillAviso(rows, rgm) ==
    IF MissingRegionMask(rows) = {} THEN "sin_aviso"
    ELSE IF rgm = "None" THEN "error_reverse_geocoder_no_encontrada"
    ELSE IF rgm = "raises" THEN "error_geocodificacion"
    ELSE "info_regiones_vacias_rellenado"

\* The body of load_data: what an uncached call returns for the file content f.
load_data(f, rgm) ==
    IF ~f.exists THEN [df |-> None, aviso |-> "info_no_se_encontro_el_archivo"]
    ELSE IF ~f.header THEN [df |-> None, aviso |-> "warning_archivo_vacio"]
    ELSE LET rows == read_csv(f) IN
         IF rows = <<>> THEN [df |-> None, aviso |-> "warning_csv_vacio"]
         ELSE [df |-> DataFrame(RegionFill(rows, rgm)), aviso |-> RegionFillAviso(rows, rgm)]

\* @st.cache_data: whether a call with this argument is served from the store.
CacheLookupAlwaysMiss(c, key) == FALSE
CacheLookup(c, key) == key \in DOMAIN c

\* @st.cache_data around load_data: the value handed to the caller, the store
\* afterwards, and whether the file was read.
cached_load_data(c, key, f, rgm) ==
    IF CacheLookup(c, key)
    THEN [value |-> c[key], cache |-> c, log |-> <<>>]
    ELSE LET v == load_data(f, rgm) IN
         [value |-> v,
          cache |-> [k \in (DOMAIN c) \cup {key} |-> IF k = key THEN v ELSE c[k]],
          log |-> <<"read">>]

\* get_last_update_time (lines 88-102): os.path.getmtime of the file.
get_last_update_time(f) ==
    IF f.exists THEN "fecha_de_modificacion" ELSE "Archivo no encontrado"

----
\* actualizar_csv_con_st_connection (lines 14-85)

\* What one refresh attempt runs into.
Resultados ==
    {"sin_config",      \* line 34: no [connections.db_mysql] in secrets
     "driver",          \* line 76: st.connection raises FileNotFoundError
     "operational",     \* line 70: conn.query raises OperationalError
     "otra_excepcion",  \* line 82: conn.query raises anything else
     "open_error",      \* line 82: to_csv cannot open the file for writing
     "write_error",     \* line 82: to_csv fails after opening (and truncating) the file
     "ok"}

\* The file after to_csv failed having written the header and k of the rows
\* (k = -1: nothing, not even the header): open(..., 'w') has already
\* truncated the old content, and nothing restores it.
PartialWrite(tabla, k) ==
    IF k < 0 THEN Truncated ELSE to_csv(SubSeq(tabla, 1, k))

\* DataFrame.to_csv of an empty result set still writes the header line.
SnapshotNoHeaderWhenEmpty(tabla) == IF tabla = <<>> THEN Truncated ELSE to_csv(tabla)
Snapshot(tabla) == to_csv(tabla)

actualizar_csv_con_st_connection(resultado, k, f, tabla) ==
    IF resultado \in {"sin_config", "driver"}
    THEN [exito |-> FALSE, file |-> f, log |-> <<>>]
    ELSE IF resultado \in {"operational", "otra_excepcion"}
    THEN [exito |-> FALSE, file |-> f, log |-> <<"query">>]
    ELSE IF resultado = "open_error"
    THEN [exito |-> FALSE, file |-> f, log |-> <<"query", "write">>]
    ELSE IF resultado = "write_error"
    THEN [exito |-> FALSE, file |-> PartialWrite(tabla, k), log |-> <<"query", "write">>]
    ELSE [exito |-> TRUE, file |-> Snapshot(tabla), log |-> <<"query", "write">>]

\* Lines 202-208: st.cache_data.clear() when the refresh succeeded.
ButtonCacheKeep(ex, c) == [cache |-> c, log |-> <<>>]
ButtonCache(ex, c) ==
    IF ex THEN [cache |-> EmptyCache, log |-> <<"clear">>]
    ELSE [cache |-> c, log |-> <<>>]

\* Lines 224-225: st.stop() when the load gave no table.
ShouldStopNever(df) == FALSE
ShouldStop(df) == ~df.ok

----
\* Aggregation (lines 233-243)

\* groupby('region'): one group per region value; missing keys are dropped.
GroupKeys(rows) == {rows[i].region : i \in 1..Len(rows)} \ {NA}

\* numero_descargas=('id', 'count')
NumeroDescargasNunique(rows, r) ==
    Cardinality({rows[i].id_descargado : i \in {j \in 1..Len(rows) : rows[j].region = r}})
NumeroDescargas(rows, r) == Cardinality({i \in 1..Len(rows) : rows[i].region = r})

\* descargas_unicas=('id_descargado', 'nunique')
DescargasUnicas(rows, r) ==
    Cardinality({rows[i].id_descargado : i \in {j \in 1..Len(rows) : rows[j].region = r}})

GroupByRegion(rows) ==
    [r \in GroupKeys(rows) |->
        [Descargas |-> NumeroDescargas(rows, r), DescargasUnicas |-> DescargasUnicas(rows, r)]]

\* df_principal.shape[0]
TotalDescargasGlobal(rows) == Len(rows)

\* df_principal['id_descargado'].nunique()
TotalUnicasGlobalShape(rows) == Len(rows)
TotalUnicasGlobal(rows) == Cardinality({rows[i].id_descargado : i \in 1..Len(rows)})

----
\* The script (lines 183-243)

Init ==
    /\ db = <<>>
    /\ rg \in {"None", "ok", "raises"}
    /\ file = Absent
    /\ cache = EmptyCache
    /\ ciclo = "none"
    /\ boton = FALSE
    /\ exito = FALSE
    /\ df_principal = None
    /\ aviso = "sin_aviso"
    /\ last_update = "sin_calcular"
    /\ df_zona = GroupByRegion(<<>>)
    /\ total_descargas_global = 0
    /\ total_unicas_global = 0
    /\ log = <<>>
    /\ fileBefore = Absent
    /\ cacheHadEntry = FALSE

\* One run of the script.  pressed: st.button's value; resultado, k: what the
\* refresh runs into when pressed.
Script(pressed, resultado, k) ==
    LET ref == IF pressed
               THEN actualizar_csv_con_st_connection(resultado, k, file, db)
               ELSE [exito |-> FALSE, file |-> file, log |-> <<>>]
        clr == IF pressed THEN ButtonCache(ref.exito, cache)
               ELSE [cache |-> cache, log |-> <<>>]
        ld == cached_load_data(clr.cache, ARCHIVO_SALIDA, ref.file, rg)
        stop == ShouldStop(ld.value.df)
        rows == ld.value.df.rows
    IN  /\ boton' = pressed
        /\ exito' = ref.exito
        /\ file' = ref.file
        /\ cache' = ld.cache
        /\ df_principal' = ld.value.df
        /\ aviso' = ld.value.aviso
        /\ last_update' = get_last_update_time(ref.file)
        /\ ciclo' = IF stop THEN "stopped" ELSE "shown"
        /\ df_zona' = IF stop THEN GroupByRegion(<<>>) ELSE GroupByRegion(rows)
        /\ total_descargas_global' = IF stop THEN 0 ELSE TotalDescargasGlobal(rows)
        /\ total_unicas_global' = IF stop THEN 0 ELSE TotalUnicasGlobal(rows)
        /\ log' = ref.log \o clr.log \o ld.log \o (IF stop THEN <<>> ELSE <<"aggregate">>)
        /\ fileBefore' = file
        /\ cacheHadEntry' = (ARCHIVO_SALIDA \in DOMAIN cache)
        /\ UNCHANGED <<db, rg>>

\* A rerun without the refresh button (any other widget interaction).
Rerun == Script(FALSE, "ok", 0)

\* A rerun caused by pressing "Actualizar Registros Base de Datos".
Actualizar ==
    \E resultado \in Resultados :
        \E k \in (IF resultado = "write_error" THEN -1..(Len(db) - 1) ELSE {0}) :
            Script(TRUE, resultado, k)

\* The download service inserts a row into `descargas` (outside ap.py).
Insertar ==
    /\ Len(db) < MaxRows
    /\ \E r \in DbRows(db) : db' = Append(db, r)
    /\ UNCHANGED <<rg, file, cache, ciclo, boton, exito, df_principal, aviso, last_update,
                   df_zona, total_descargas_global, total_unicas_global, log,
                   fileBefore, cacheHadEntry>>

Next == Insertar \/ Rerun \/ Actualizar

Spec == Init /\ [][Next]_vars

----
\* Properties

\* A script run has completed.
Ran == ciclo # "none"

\* The last run performed event e.
InLog(e) == \E i \in 1..Len(log) : log[i] = e

\* The snapshot written for an empty result set: the header line only.
HeaderOnly == [exists |-> TRUE, header |-> TRUE, rows |-> <<>>]

\* The cache holding exactly one entry, for the snapshot path.
CacheOf(v) == [k \in {ARCHIVO_SALIDA} |-> v]

RECURSIVE SumColumn(_, _, _)
\* Sum of the column col (TRUE: Descargas, FALSE: Descargas Unicas) of the
\* region summary z over the regions in keys.
SumColumn(z, keys, col) ==
    IF keys = {} THEN 0
    ELSE LET r == CHOOSE x \in keys : TRUE
         IN  (IF col THEN z[r].Descargas ELSE z[r].DescargasUnicas)
             + SumColumn(z, keys \ {r}, col)

SumDescargas == SumColumn(df_zona, DOMAIN df_zona, TRUE)
SumDescargasUnicas == SumColumn(df_zona, DOMAIN df_zona, FALSE)

\* Some id_descargado of the loaded table appears under two regions.
SharedItem ==
    \E i, j \in 1..Len(df_principal.rows) :
        /\ df_principal.rows[i].id_descargado = df_principal.rows[j].id_descargado
        /\ df_principal.rows[i].region # df_principal.rows[j].region

\* C1 (as claimed): a refresh that returns False leaves data.csv with the
\* content it had before the attempt, and the load that follows gives what it
\* would have given without the attempt.
C1_FailedRefreshLeavesSnapshot ==
    (Ran /\ boton /\ ~exito) =>
        /\ file = fileBefore
        /\ (~cacheHadEntry => df_principal = load_data(fileBefore, rg).df)

C3_RegionNeverEmpty ==
    (Ran /\ df_principal.ok) =>
        \A i \in 1..Len(df_principal.rows) : df_principal.rows[i].region \notin {NA, ""}

\* C4 (as claimed): with rg = None, load_data returns a table in which every
\* row whose region is absent in the snapshot has the region "Unknown".
C4_UnknownPlaceholder ==
    (Ran /\ InLog("read") /\ rg = "None" /\ file.exists /\ file.rows # <<>>) =>
        /\ df_principal.ok
        /\ \A i \in 1..Len(file.rows) :
               file.rows[i].region = "" => df_principal.rows[i].region = "Unknown"

\* C4 (amended): with rg = None, load_data returns a table in which every row
\* whose region is absent in the snapshot has the region "Desconocida", and
\* the other rows keep their region.
C4_DesconocidaPlaceholder ==
    (Ran /\ InLog("read") /\ rg = "None" /\ file.exists /\ file.rows # <<>>) =>
        /\ df_principal.ok
        /\ Len(df_principal.rows) = Len(file.rows)
        /\ \A i \in 1..Len(file.rows) :
               df_principal.rows[i].region =
                   IF file.rows[i].region = "" THEN "Desconocida" ELSE file.rows[i].region

\* C4 witness: load_data read a snapshot with an absent region while rg was None.
C4_Witness ==
    /\ Ran /\ InLog("read") /\ rg = "None" /\ df_principal.ok
    /\ \E i \in 1..Len(file.rows) : file.rows[i].region = ""
    /\ \E i \in 1..Len(file.rows) : file.rows[i].region # ""

\* C5: the Descargas column of the region summary sums to the all-time total
\* record count.
C5_DescargasSumIsTotal ==
    (ciclo = "shown") =>
        /\ total_descargas_global = Len(df_principal.rows)
        /\ SumDescargas = total_descargas_global

\* C5 witness: a summary of two regions over rows that repeat an item.
C5_Witness ==
    /\ ciclo = "shown"
    /\ Cardinality(DOMAIN df_zona) >= 2
    /\ total_unicas_global < total_descargas_global

\* C6 (as claimed): the Descargas Unicas column of the region summary never
\* sums to more than the all-time distinct item count.
C6_UnicasSumAtMostGlobal ==
    (ciclo = "shown") => SumDescargasUnicas <= total_unicas_global

\* C6 (amended): the Descargas Unicas column sums to at least the all-time
\* distinct item count and at most the total record count; it exceeds the
\* distinct count exactly when an item appears under two regions; no single
\* region's Descargas Unicas exceeds the distinct count.
C6_UnicasSumAtLeastGlobal ==
    (ciclo = "shown") =>
        /\ SumDescargasUnicas >= total_unicas_global
        /\ SumDescargasUnicas <= total_descargas_global
        /\ (SumDescargasUnicas > total_unicas_global) <=> SharedItem
        /\ \A r \in DOMAIN df_zona : df_zona[r].DescargasUnicas <= total_unicas_global

\* C6 witness: the same item under two regions, counted once per region.
C6_Witness ==
    /\ ciclo = "shown"
    /\ SharedItem
    /\ SumDescargasUnicas > total_unicas_global

C8_EmptyResultSet ==
    (Ran /\ boton /\ exito /\ db = <<>>) =>
        /\ file = HeaderOnly
        /\ InLog("read")
        /\ df_principal = None
        /\ aviso = "warning_csv_vacio"
        /\ ciclo = "stopped"

\* C8 witness: a refresh succeeded on the empty table.
C8_Witness ==
    /\ Ran /\ boton /\ exito /\ db = <<>>
    /\ file = HeaderOnly /\ fileBefore = Absent

\* C9 (as claimed): a run without the refresh button leaves data.csv
\* unchanged, and every run reads data.csv.
C9_ReadEveryCycle ==
    Ran => /\ (~boton => file = fileBefore)
           /\ InLog("read")

\* C9 (amended): a run without the refresh button leaves data.csv unchanged;
\* every run calls load_data and looks up the file's modification time, and
\* load_data reads data.csv exactly in the runs that find no cached result or
\* follow a successful refresh.
C9_OnlyRefreshWrites ==
    Ran => /\ (~boton => file = fileBefore)
           /\ last_update = get_last_update_time(file)
           /\ ARCHIVO_SALIDA \in DOMAIN cache
           /\ InLog("read") <=> (~cacheHadEntry \/ (boton /\ exito))

\* C9 witness: a plain rerun over an existing snapshot served from the cache.
C9_Witness ==
    /\ Ran /\ ~boton /\ cacheHadEntry
    /\ file.exists /\ file.rows # <<>> /\ file = fileBefore
    /\ ~InLog("read")

\* C10 (as claimed): the value load_data hands to the run equals what
\* enriching the current content of data.csv gives.
C10_CacheCoherent ==
    Ran => df_principal = load_data(file, rg).df

====
